---- MODULE Spec2Model ----
(***************************************************************************)
(* AsyncParallelSolver (autotf/tuner/parallel_solver/                      *)
(* async_parallel_solver.py): one solver instance and one call of run().   *)
(* The control thread is a program counter pc; worker processes are the    *)
(* Complete action.  Lists are sequences; Python index k is TLA index k+1. *)
(* Durations are abstracted to 0: only the lengths of the time histories   *)
(* take part in the behaviour (save_output indexes them).                  *)
(* The solver never computes with a point or compares two points: it only  *)
(* passes them on.  A point is therefore identified by where it came from: *)
(* the k-th point the sampler or the maximizer produced during the run is  *)
(* k, the j-th row the caller supplied is -j.                              *)
(***************************************************************************)
EXTENDS Integers, Sequences, FiniteSets, TLC

\* ---- bounds of the model ------------------------------------------------
MaxWorkers == 2
MaxInitPoints == 2
MaxIterations == 3
MaxTrainInterval == 2
MaxSupplied == 2
MaxValue == 2
CapWorkers == 1

Values == 1..MaxValue

VARIABLES
  pc,                \* position of the control thread in run()
  error,             \* exception that ended run(), "" if none
  num_workers,       \* self.num_workers
  init_points,       \* self.init_points
  train_interval,    \* self.train_interval
  output_path,       \* self.output_path is not None
  args,              \* arguments of run(): num_iterations, X, y
  init,              \* the initial design drawn at line 96
  trials,            \* every future the pool was given, in submission order
  trial_statistics,  \* self.trial_statistics: handles (indices into trials)
  X, y,              \* the Dataset (local X, y in the initial phase, then self.X, self.y)
  time_func_evals, time_overhead, runtime,
  incumbents, incumbents_values,
  evaluate_counter,  \* local of run()
  i,                 \* loop index of the initial harvest loop (line 117)
  it,                \* position of the list iterator of collect() (line 192)
  caller,            \* which call site of collect() is active: "loop" or "drain"
  last_call,         \* the most recent call of choose_next: arguments and branch taken
  first_done,        \* handle of the first trial a worker finished, 0 while there is none
  saved,             \* iteration indices of the records save_output has written
  done_at_start,     \* in-flight handles that were done when collect() was last called
  backed_off         \* a tick has taken the backoff branch (line 151)

vars == <<pc, error, num_workers, init_points, train_interval, output_path, args,
          init, trials, trial_statistics, X, y, time_func_evals, time_overhead,
          runtime, incumbents, incumbents_values, evaluate_counter, i, it, caller,
          last_call, first_done, saved, done_at_start, backed_off>>

config == <<num_workers, init_points, train_interval, output_path>>
histories == <<time_func_evals, time_overhead, runtime, incumbents, incumbents_values>>

\* ---- helpers ------------------------------------------------------------
\* list.remove(v): drops the first element equal to v
RemoveFirst(s, v) ==
  LET k == CHOOSE j \in 1..Len(s) : s[j] = v /\ \A m \in 1..(j-1) : s[m] # v
  IN  SubSeq(s, 1, k-1) \o SubSeq(s, k+1, Len(s))

\* variant of argmin: the first occurrence of the maximum
argmax(s) ==
  CHOOSE k \in 1..Len(s) :
    /\ \A j \in 1..Len(s) : s[k] >= s[j]
    /\ \A j \in 1..(k-1) : s[j] < s[k]

\* variant of argmin: the last occurrence of the minimum
argmin_last(s) ==
  CHOOSE k \in 1..Len(s) :
    /\ \A j \in 1..Len(s) : s[k] <= s[j]
    /\ \A j \in (k+1)..Len(s) : s[j] > s[k]

\* variant of argmin: the row appended last
argnewest(s) == Len(s)

\* np.argmin: index of the first occurrence of the minimum (1-based here)
argmin(s) ==
  CHOOSE k \in 1..Len(s) :
    /\ \A j \in 1..Len(s) : s[k] <= s[j]
    /\ \A j \in 1..(k-1) : s[j] > s[k]

\* Future.done(): finished or raised
done(t) == trials[t].state # "pending"

\* ProcessPoolExecutor(max_workers=n_workers): work items start in submission
\* order, at most n_workers of them run at a time
Running(t) ==
  /\ t \in 1..Len(trials)
  /\ trials[t].state = "pending"
  /\ Cardinality({u \in 1..(t-1) : trials[u].state = "pending"}) < num_workers

NoCall == [branch |-> "none", X |-> <<>>, y |-> <<>>, do_optimize |-> FALSE]

\* ---- construction -------------------------------------------------------
\* __init__ (lines 35-63) with at most W workers, a train interval of at most T
\* and at most P initial points
Constructed(W, T, P) ==
  /\ pc = "constructed"
  /\ error = ""
  /\ num_workers \in 1..W
  /\ init_points \in 1..P
  /\ train_interval \in 1..T
  /\ output_path \in BOOLEAN
  /\ args = [num_iterations |-> 0, supplied |-> FALSE, X |-> <<>>, y |-> <<>>]
  /\ init = <<>>
  /\ trials = <<>>
  /\ trial_statistics = <<>>
  /\ X = <<>>
  /\ y = <<>>
  /\ time_func_evals = <<>>
  /\ time_overhead = <<>>
  /\ runtime = <<>>
  /\ incumbents = <<>>
  /\ incumbents_values = <<>>
  /\ evaluate_counter = 0
  /\ i = 0
  /\ it = 0
  /\ caller = "loop"
  /\ last_call = NoCall
  /\ first_done = 0
  /\ saved = <<>>
  /\ done_at_start = {}
  /\ backed_off = FALSE

Init == Constructed(MaxWorkers, 1, MaxInitPoints)

\* ---- workers ------------------------------------------------------------
\* evaluate_func in a worker process: the objective returns a value or raises.
\* The run is modelled from the call of run() to its return or raise.
Complete(t, v, ok) ==
  /\ pc \notin {"constructed", "returned", "raised"}
  /\ Running(t)
  /\ trials' = [trials EXCEPT ![t] = [x |-> trials[t].x,
                                      state |-> IF ok THEN "done" ELSE "failed",
                                      y |-> IF ok THEN v ELSE 0]]
  /\ first_done' = IF first_done = 0 THEN t ELSE first_done
  /\ UNCHANGED <<pc, error, config, args, init, trial_statistics, X, y, histories,
                 evaluate_counter, i, it, caller, last_call, saved, done_at_start,
                 backed_off>>

\* ---- run(): entry and initial design (lines 86-105) -----------------------
\* variant of RunsInitialDesign: the supplied data is ignored
RunsInitialDesignAlways(supplied) == TRUE

\* line 90: the initial design runs when neither X nor y was given
RunsInitialDesign(supplied) == ~supplied

Submitted(x) == [x |-> x, state |-> "pending", y |-> 0]

\* variant of counter_start: the counter starts at 0
counter_start_zero(p, rows) == 0

\* variant of counter_start: the counter starts at the size of the Dataset
counter_start_rows(p, rows) == rows

\* line 148: the submitted-trial counter starts at self.init_points (p), whatever
\* the number of rows of the Dataset
counter_start(p, rows) == p

\* lines 96-99: the sampler's n points
initial_design(n) == [k \in 1..n |-> k]

\* variant of InitHandles: the futures of the initial trials are not kept
InitHandlesDropped(n) == <<>>

\* line 105: the handle of every initial trial is appended to trial_statistics
InitHandles(n) == [k \in 1..n |-> k]

Run(n, supplied, sx, sy) ==
  /\ pc = "constructed"
  /\ args' = [num_iterations |-> n, supplied |-> supplied, X |-> sx, y |-> sy]
  /\ IF RunsInitialDesign(supplied)
       THEN /\ init' = initial_design(init_points)
            /\ trials' = [k \in 1..init_points |-> Submitted(init'[k])]
            /\ trial_statistics' = InitHandles(init_points)
            /\ pc' = "barrier"
            /\ UNCHANGED <<X, y, evaluate_counter>>
       ELSE /\ X' = sx
            /\ y' = sy
            /\ trial_statistics' = <<>>
            /\ evaluate_counter' = counter_start(init_points, Len(sx))
            /\ pc' = "loop"
            /\ UNCHANGED <<init, trials>>
  /\ UNCHANGED <<error, config, histories, i, it, caller, last_call, first_done, saved, done_at_start, backed_off>>

\* lines 108-115 and 176-182: one poll of the wait loop that finds every handle
\* done; a poll that finds a pending handle sleeps and leaves the state as it is
all_completed(ts) == \A k \in 1..Len(ts) : done(ts[k])

Barrier ==
  /\ pc = "barrier"
  /\ all_completed(trial_statistics)
  /\ pc' = "init_harvest"
  /\ i' = 0
  /\ UNCHANGED <<error, config, args, init, trials, trial_statistics, X, y, histories,
                 evaluate_counter, it, caller, last_call, first_done, saved, done_at_start, backed_off>>

\* save_output(it): every history is indexed with it (lines 270-274)
save_output_ok(n, toh, rt, inc, incv, tfe) ==
  /\ n < Len(toh) /\ n < Len(rt) /\ n < Len(inc) /\ n < Len(incv) /\ n < Len(tfe)

\* variant of InitPoint: the points taken from the end of the design
InitPointReversed(k) == init[Len(init) - k]

\* lines 119-120: the point stored with the result of the i-th handle
InitPoint(k) == init[k + 1]

\* lines 117-137: one iteration of the harvest loop of the initial phase
InitHarvest ==
  /\ pc = "init_harvest"
  /\ i < Len(trial_statistics)
  /\ done(trial_statistics[i + 1])   \* Future.result() returns once the future is done
  /\ LET trial == trial_statistics[i + 1] IN
     IF trials[trial].state = "failed"
       THEN /\ pc' = "raised"
            /\ error' = "objective"
            /\ UNCHANGED <<X, y, histories, i, saved>>
       ELSE LET nX == Append(X, InitPoint(i))
                ny == Append(y, trials[trial].y)
                best_idx == argmin(ny)
            IN  /\ X' = nX
                /\ y' = ny
                /\ time_func_evals' = Append(time_func_evals, 0)
                /\ time_overhead' = Append(time_overhead, 0)
                /\ incumbents' = Append(incumbents, nX[best_idx])
                /\ incumbents_values' = Append(incumbents_values, ny[best_idx])
                /\ runtime' = Append(runtime, 0)
                /\ i' = i + 1
                \* lines 136-137
                /\ IF ~output_path
                     THEN UNCHANGED <<pc, error, saved>>
                     ELSE IF save_output_ok(i, time_overhead', runtime', incumbents',
                                            incumbents_values', time_func_evals')
                       THEN saved' = Append(saved, i) /\ UNCHANGED <<pc, error>>
                       ELSE pc' = "raised" /\ error' = "IndexError" /\ UNCHANGED saved
  /\ UNCHANGED <<config, args, init, trials, trial_statistics, evaluate_counter, it,
                 caller, last_call, first_done, done_at_start, backed_off>>

\* lines 139-148: the initial phase is over, the main loop starts
InitDone ==
  /\ pc = "init_harvest"
  /\ i >= Len(trial_statistics)
  /\ trial_statistics' = <<>>
  /\ evaluate_counter' = counter_start(init_points, Len(X))
  /\ pc' = "loop"
  /\ UNCHANGED <<error, config, args, init, trials, X, y, histories, i, it, caller,
                 last_call, first_done, saved, done_at_start, backed_off>>

\* ---- main loop (lines 149-171) --------------------------------------------
\* variant of Admit: the cap compared one too high
AdmitOneMore(n) == ~(n > 2 * num_workers + 1)

\* line 150: the tick submits unless more than 2*num_workers handles are in flight
Admit(n) == ~(n > 2 * num_workers)

\* variant of do_optimize: the counter taken without the increment
do_optimize_no_increment(counter) == counter % train_interval = 0

\* line 153
do_optimize(counter) == (counter + 1) % train_interval = 0

\* choose_next, lines 241-248: which branch produces the candidate
choose_next_branch(isNone, rows) ==
  IF isNone THEN "initial_design"
  ELSE IF rows = 1 THEN "initial_design"
  ELSE "surrogate"

\* line 161: the point choose_next returns, from the sampler or from the maximizer
choose_next_point == Len(trials) + 1

\* variant of after_tick: the backoff branch goes straight back to the loop head
after_tick_skips_collect(admitted) == IF admitted THEN "collect" ELSE "loop"

\* line 171: collect() is called at the end of the tick, whichever branch it took
after_tick(admitted) == "collect"

\* the handles of ts that are done
done_handles(ts) == {ts[k] : k \in {j \in 1..Len(ts) : done(ts[j])}}

\* one tick up to the call of collect()
Tick ==
  /\ pc = "loop"
  /\ evaluate_counter < args.num_iterations
  /\ IF Admit(Len(trial_statistics))
       THEN   /\ last_call' = [branch |-> choose_next_branch(FALSE, Len(X)),
                               X |-> X, y |-> y,
                               do_optimize |-> do_optimize(evaluate_counter)]
              /\ time_overhead' = Append(time_overhead, 0)
              /\ trials' = Append(trials, Submitted(choose_next_point))
              /\ trial_statistics' = Append(trial_statistics, Len(trials) + 1)
              /\ evaluate_counter' = evaluate_counter + 1
              /\ UNCHANGED backed_off
       ELSE   /\ backed_off' = TRUE
              /\ UNCHANGED <<last_call, time_overhead, trials, trial_statistics,
                             evaluate_counter>>
  /\ pc' = after_tick(Admit(Len(trial_statistics)))
  /\ it' = 0
  /\ caller' = "loop"
  /\ done_at_start' = done_handles(trial_statistics)
  /\ UNCHANGED <<error, config, args, init, X, y, time_func_evals, runtime, incumbents,
                 incumbents_values, i, first_done, saved>>

\* ---- collect() (lines 190-218) --------------------------------------------
\* variant of RemoveTrial: the oldest handle is dropped
RemoveOldest(ts, trial) == Tail(ts)

\* variant of RemoveTrial: the harvested handle stays in the list
KeepTrial(ts, trial) == ts

\* line 218
RemoveTrial(ts, trial) == RemoveFirst(ts, trial)

\* one iteration of the for loop over self.trial_statistics: the list iterator
\* yields the element at its position and advances, whatever was removed
CollectStep ==
  /\ pc = "collect"
  /\ it < Len(trial_statistics)
  /\ it' = it + 1
  /\ LET trial == trial_statistics[it + 1] IN
     IF ~done(trial)
       THEN UNCHANGED <<pc, error, trial_statistics, X, y, histories>>
     ELSE IF trials[trial].state = "failed"
       THEN /\ pc' = "raised"
            /\ error' = "objective"
            /\ UNCHANGED <<trial_statistics, X, y, histories>>
     ELSE LET nX == Append(X, trials[trial].x)
              ny == Append(y, trials[trial].y)
              best_idx == argmin(ny)
          IN  /\ time_func_evals' = Append(time_func_evals, 0)
              /\ X' = nX
              /\ y' = ny
              /\ incumbents' = Append(incumbents, nX[best_idx])
              /\ incumbents_values' = Append(incumbents_values, ny[best_idx])
              /\ runtime' = Append(runtime, 0)
              /\ UNCHANGED time_overhead
              /\ IF output_path
                   \* line 216: evaluate_counter is a local of run(), not of collect()
                   THEN /\ pc' = "raised"
                        /\ error' = "NameError"
                        /\ UNCHANGED trial_statistics
                   ELSE /\ trial_statistics' = RemoveTrial(trial_statistics, trial)
                        /\ UNCHANGED <<pc, error>>
  /\ UNCHANGED <<config, args, init, trials, evaluate_counter, i, caller, last_call, first_done, saved, done_at_start, backed_off>>

CollectEnd ==
  /\ pc = "collect"
  /\ it >= Len(trial_statistics)
  /\ pc' = IF caller = "loop" THEN "loop" ELSE "return"
  /\ UNCHANGED <<error, config, args, init, trials, trial_statistics, X, y, histories,
                 evaluate_counter, i, it, caller, last_call, first_done, saved, done_at_start, backed_off>>

\* ---- after the loop (lines 173-188) ---------------------------------------
\* line 174: the condition that guards the final wait
DrainGuard(ts) == ~(Len(ts) # 0)

LoopExit ==
  /\ pc = "loop"
  /\ ~(evaluate_counter < args.num_iterations)
  /\ pc' = IF DrainGuard(trial_statistics) THEN "drain" ELSE "return"
  /\ UNCHANGED <<error, config, args, init, trials, trial_statistics, X, y, histories,
                 evaluate_counter, i, it, caller, last_call, first_done, saved, done_at_start, backed_off>>

\* lines 175-183: wait until every handle is done, then collect()
Drain ==
  /\ pc = "drain"
  /\ all_completed(trial_statistics)
  /\ pc' = "collect"
  /\ it' = 0
  /\ caller' = "drain"
  /\ done_at_start' = done_handles(trial_statistics)
  /\ UNCHANGED <<error, config, args, init, trials, trial_statistics, X, y, histories,
                 evaluate_counter, i, last_call, first_done, saved, backed_off>>

\* lines 185-188: incumbents[-1] of an empty list raises
Return ==
  /\ pc = "return"
  /\ IF Len(incumbents) = 0
       THEN pc' = "raised" /\ error' = "IndexError"
       ELSE pc' = "returned" /\ UNCHANGED error
  /\ UNCHANGED <<config, args, init, trials, trial_statistics, X, y, histories,
                 evaluate_counter, i, it, caller, last_call, first_done, saved, done_at_start, backed_off>>

Next ==
  \/ \E n \in 0..MaxIterations : Run(n, FALSE, <<>>, <<>>)
  \/ \E n \in 0..MaxIterations : \E k \in 0..MaxSupplied :
       \E sy \in [1..k -> Values] : Run(n, TRUE, [j \in 1..k |-> 0 - j], sy)
  \/ \E t \in 1..Len(trials) : \E v \in Values : Complete(t, v, TRUE)
  \/ \E t \in 1..Len(trials) : Complete(t, 0, FALSE)
  \/ Barrier
  \/ InitHarvest
  \/ InitDone
  \/ Tick
  \/ CollectStep
  \/ CollectEnd
  \/ LoopExit
  \/ Drain
  \/ Return

Spec == Init /\ [][Next]_vars

\* ---- long runs with one objective value ------------------------------------
\* The admission cap needs 2*num_workers + 1 outstanding submissions and one more
\* tick; with one initial point the iteration budget reaches that far here, every
\* train interval is configured, and the objective has one value.
CapIterations == 2 * CapWorkers + 3

NextCap ==
  \/ \E n \in 0..CapIterations : Run(n, FALSE, <<>>, <<>>)
  \/ \E n \in 0..CapIterations : \E k \in 0..MaxSupplied :
       Run(n, TRUE, [j \in 1..k |-> 0 - j], [j \in 1..k |-> 1])
  \/ \E t \in 1..Len(trials) : Complete(t, 1, TRUE)
  \/ \E t \in 1..Len(trials) : Complete(t, 0, FALSE)
  \/ Barrier
  \/ InitHarvest
  \/ InitDone
  \/ Tick
  \/ CollectStep
  \/ CollectEnd
  \/ LoopExit
  \/ Drain
  \/ Return

InitCap == Constructed(CapWorkers, MaxTrainInterval, 1)

SpecCap == InitCap /\ [][NextCap]_vars

\* ---- properties -----------------------------------------------------------
InMainLoop == pc = "loop" \/ (pc = "collect" /\ caller = "loop")

\* rows the caller handed to run()
supplied_rows == IF args.supplied THEN Len(args.y) ELSE 0

MinOf(s) == CHOOSE v \in {s[k] : k \in 1..Len(s)} : \A j \in 1..Len(s) : v <= s[j]

\* C1: in every state of the main loop at most 2*num_workers + 1 handles are in
\* flight, and a tick that starts with more than 2*num_workers handles in flight
\* submits nothing and leaves the submitted-trial counter as it is.
C1_InFlightCap ==
  /\ [](InMainLoop => Len(trial_statistics) <= 2 * num_workers + 1)
  /\ [][(pc = "loop" /\ Len(trial_statistics) > 2 * num_workers)
          => /\ Len(trials') = Len(trials)
             /\ trial_statistics' = trial_statistics
             /\ evaluate_counter' = evaluate_counter]_vars

\* the in-flight set is at its maximum and the budget is not used up: the next
\* tick takes the backoff branch
C1_Witness ==
  /\ pc = "loop"
  /\ Len(trial_statistics) = 2 * num_workers + 1
  /\ evaluate_counter < args.num_iterations

\* C2: after every arrival the incumbent value appended equals the minimum of
\* the y values in the Dataset at that moment: the k-th value of the incumbent
\* history is the minimum of the rows present at the k-th arrival.
C2_IncumbentIsMin ==
  /\ Len(y) = supplied_rows + Len(incumbents_values)
  /\ \A k \in 1..Len(incumbents_values) :
       incumbents_values[k] = MinOf(SubSeq(y, 1, supplied_rows + k))

\* a harvest in collect() whose value is worse than the incumbent
C2_Witness ==
  /\ InMainLoop
  /\ Len(incumbents_values) >= 2
  /\ Len(y) > supplied_rows + (IF args.supplied THEN 0 ELSE init_points)
  /\ y[Len(y)] > incumbents_values[Len(incumbents_values)]

\* C3: the incumbent values of one run never increase from one arrival to the next.
C3_NonIncreasing ==
  \A k \in 1..(Len(incumbents_values) - 1) :
    incumbents_values[k + 1] <= incumbents_values[k]

\* the history holds a strict improvement, and a later arrival with a worse
\* value that left the incumbent value as it was
C3_Witness ==
  /\ \E k \in 1..(Len(incumbents_values) - 1) :
       incumbents_values[k + 1] < incumbents_values[k]
  /\ \E k \in 1..(Len(incumbents_values) - 1) :
       /\ incumbents_values[k + 1] = incumbents_values[k]
       /\ y[supplied_rows + k + 1] > incumbents_values[k + 1]

\* run() has reached the main loop (line 148 has set the counter)
FromMainLoopOn == pc # "constructed" /\ evaluate_counter >= init_points

\* trials whose objective returned
Succeeded == {t \in 1..Len(trials) : trials[t].state = "done"}

\* C4 as stated: from the start of the main loop on, len(X) == len(y) and this
\* length is the number of trials that have completed successfully so far (the
\* rows the caller supplied counted with them).
C4_LengthIsCompleted ==
  FromMainLoopOn =>
    /\ Len(X) = Len(y)
    /\ Len(X) = supplied_rows + Cardinality(Succeeded)

\* C4 as amended: from the start of the main loop on, len(X) == len(y), the
\* Dataset never shrinks, and the length is at most the supplied rows plus the
\* trials that have completed successfully; while run() has not raised it is
\* the supplied rows plus the trials harvested so far (submitted and no longer
\* in flight).
C4_LengthIsHarvested ==
  /\ [](FromMainLoopOn =>
         /\ Len(X) = Len(y)
         /\ Len(X) <= supplied_rows + Cardinality(Succeeded)
         /\ pc # "raised" =>
              Len(X) = supplied_rows + Len(trials) - Len(trial_statistics))
  /\ [][/\ Len(X') >= Len(X) /\ SubSeq(X', 1, Len(X)) = X
        /\ Len(y') >= Len(y) /\ SubSeq(y', 1, Len(y)) = y]_vars

\* collect() has harvested a trial while another that has completed is still unharvested
C4_Witness ==
  /\ FromMainLoopOn
  /\ pc # "raised"
  /\ Len(trials) - Len(trial_statistics) > Len(init)
  /\ Len(X) < supplied_rows + Cardinality(Succeeded)

\* C5: whenever run() returns, the in-flight set is empty and every trial
\* submitted during the run has been appended to the Dataset and is reflected in
\* the returned incumbent.
C5_DrainedAtReturn ==
  pc = "returned" =>
    /\ Len(trial_statistics) = 0
    /\ Len(X) = supplied_rows + Len(trials)
    /\ incumbents_values[Len(incumbents_values)] = MinOf(y)

\* C6: no execution has a failed trial and a normal return of run().
C6_FailureRaises ==
  pc = "returned" => \A t \in 1..Len(trials) : trials[t].state # "failed"

\* C7: while an initial trial is pending, choose_next has not been called and no
\* adaptive trial has been submitted.
C7_Barrier ==
  (/\ pc # "constructed"
   /\ ~args.supplied
   /\ \E k \in 1..Len(init) : trials[k].state = "pending")
  => /\ last_call = NoCall
     /\ Len(trials) = Len(init)
     /\ evaluate_counter = 0

\* the control thread waits at the barrier: the second initial trial finished
\* first and the first one is still pending
C7_Witness ==
  /\ pc = "barrier"
  /\ Len(init) >= 2
  /\ trials[1].state = "pending"
  /\ trials[2].state = "done"

\* C8: in the initial phase the k-th Observation appended is the k-th submitted
\* initial point with the result of the k-th submitted trial, whatever the order
\* of completion.
C8_SubmissionOrder ==
  (pc # "constructed" /\ ~args.supplied) =>
    \A k \in 1..Len(init) :
      k <= Len(X) => (X[k] = init[k] /\ y[k] = trials[k].y)

\* the initial phase is over; the second trial completed first, and the two
\* results differ, so that any other pairing would show
C8_Witness ==
  /\ ~args.supplied
  /\ pc = "loop"
  /\ Len(init) = 2
  /\ first_done = 2
  /\ y[1] # y[2]

\* C9: a call of choose_next on fewer than 2 Observations takes the candidate
\* from the initial-design sampler, never from the surrogate.
C9_FewRowsUseSampler ==
  (last_call # NoCall /\ Len(last_call.X) < 2) => last_call.branch = "initial_design"

\* C10: with (X, y) supplied by the caller no initial trial is submitted, the
\* barrier is not entered, and the first call of choose_next receives exactly
\* the supplied X and y.
C10_SuppliedUnchanged ==
  args.supplied =>
    /\ Len(init) = 0
    /\ pc \notin {"barrier", "init_harvest"}
    /\ Len(trials) = evaluate_counter - init_points
    /\ Len(trials) = 0 => last_call = NoCall
    /\ Len(trials) = 1 => (last_call.X = args.X /\ last_call.y = args.y)

\* two rows with different values were supplied, the first candidate was chosen on them, and
\* a harvest has since changed the Dataset
C10_Witness ==
  /\ args.supplied
  /\ Len(args.X) = 2
  /\ args.y[1] # args.y[2]
  /\ Len(trials) = 1
  /\ last_call.X = args.X
  /\ Len(X) > Len(args.X)

\* the main loop has ended without an exception
LoopExited ==
  \/ pc \in {"drain", "return", "returned"}
  \/ (pc = "collect" /\ caller = "drain")

\* submissions of the main loop
adaptive_submissions == Len(trials) - Len(init)

\* C11: in a run with the initial-design phase the submitted-trial counter is
\* init_points plus the number of adaptive submissions in every state from the
\* main loop on (so it moves only with a submission, by one), and when the loop
\* has ended there were exactly max(0, num_iterations - init_points) of them.
C11_CounterCountsSubmissions ==
  ~args.supplied =>
    /\ (InMainLoop \/ LoopExited) =>
         evaluate_counter = init_points + adaptive_submissions
    /\ LoopExited =>
         adaptive_submissions =
           (IF args.num_iterations > init_points
              THEN args.num_iterations - init_points ELSE 0)

\* a run with the initial phase has returned after a backoff tick and at least
\* two adaptive submissions
C11_Witness ==
  /\ ~args.supplied
  /\ pc = "returned"
  /\ backed_off
  /\ adaptive_submissions >= 2
  /\ args.num_iterations = init_points + adaptive_submissions

NoTrialFailed == \A t \in 1..Len(trials) : trials[t].state # "failed"

\* C12: a run() in which no trial fails returns a pair whose value is at most
\* every y of the Dataset at that moment, with the initial phase as well as with
\* supplied X and y.  (Stated for runs without an output sink, whose records
\* are the subject of C18.)
C12_ReturnsMinimum ==
  (~output_path /\ NoTrialFailed /\ pc \in {"returned", "raised"}) =>
    /\ pc = "returned"
    /\ \A k \in 1..Len(y) : incumbents_values[Len(incumbents_values)] <= y[k]

\* C13: the retrain flag of the most recent call of choose_next is true exactly
\* when (c + 1) % train_interval = 0 for the counter value c before that tick's
\* submission, which is evaluate_counter - 1 until the next tick.
C13_RetrainFlag ==
  last_call # NoCall =>
    (last_call.do_optimize <=> ((evaluate_counter - 1) + 1) % train_interval = 0)

\* with train_interval 2 the surrogate was trained without retraining its
\* hyperparameters on the latest tick
C13_Witness ==
  /\ train_interval = 2
  /\ last_call.branch = "surrogate"
  /\ ~last_call.do_optimize
  /\ evaluate_counter >= init_points + 2

in_flight == {trial_statistics[k] : k \in 1..Len(trial_statistics)}

\* C14: when a call of collect() has returned, every handle that was done when
\* it started has been harvested: it is no longer in flight and its point is in
\* the Dataset.
C14_HarvestsEveryDone ==
  pc \in {"loop", "return"} =>
    \A h \in done_at_start :
      /\ h \notin in_flight
      /\ \E k \in 1..Len(X) : X[k] = trials[h].x

Pending(h) == trials[h].state = "pending"

\* C15: a step of collect() leaves the handles that are not yet completed in
\* flight and in their order, and it changes the Dataset and the histories only
\* by the Observation of one in-flight handle that is done.
C15_PendingUntouched ==
  [][pc = "collect" =>
       /\ SelectSeq(trial_statistics', Pending) = SelectSeq(trial_statistics, Pending)
       /\ \/ /\ X' = X /\ y' = y
             /\ UNCHANGED histories
          \/ \E h \in in_flight :
               /\ trials[h].state = "done"
               /\ X' = Append(X, trials[h].x)
               /\ y' = Append(y, trials[h].y)
               /\ Len(time_func_evals') = Len(time_func_evals) + 1
               /\ Len(incumbents') = Len(incumbents) + 1
               /\ Len(incumbents_values') = Len(incumbents_values) + 1
               /\ Len(runtime') = Len(runtime) + 1
               /\ time_overhead' = time_overhead]_vars

\* collect() has harvested a trial of the main loop that was submitted after a
\* handle which is still pending and still in flight
C15_Witness ==
  /\ pc = "collect"
  /\ \E h \in in_flight :
       /\ Pending(h)
       /\ \E t \in (h + 1)..Len(trials) :
            /\ t \notin in_flight
            /\ \E k \in 1..Len(X) : X[k] = trials[t].x

\* ---- runs whose trials all complete ------------------------------------------
\* A run that starts with the initial design, without an output path, whose
\* objective never raises. The control thread of run() keeps executing, and the
\* pool keeps working on the trials it holds.
InitLive == Constructed(CapWorkers, 1, 1) /\ ~output_path

control_thread ==
  \/ Barrier
  \/ InitHarvest
  \/ InitDone
  \/ Tick
  \/ CollectStep
  \/ CollectEnd
  \/ LoopExit
  \/ Drain
  \/ Return

workers == \E t \in 1..Len(trials) : Complete(t, 1, TRUE)

NextLive ==
  \/ \E n \in 0..CapIterations : Run(n, FALSE, <<>>, <<>>)
  \/ \E t \in 1..Len(trials) : Complete(t, 1, TRUE)
  \/ Barrier
  \/ InitHarvest
  \/ InitDone
  \/ Tick
  \/ CollectStep
  \/ CollectEnd
  \/ LoopExit
  \/ Drain
  \/ Return

SpecLive ==
  InitLive /\ [][NextLive]_vars /\ WF_vars(control_thread) /\ WF_vars(workers)

\* C16: collect() runs on every tick, so a saturated pool does not block the
\* run: when every trial completes without raising and no output path is set, a
\* run() that started with the initial design reaches its iteration budget and
\* returns.
C16_RunReturns ==
  /\ (pc = "barrier") ~> (pc = "returned" /\ ~(evaluate_counter < args.num_iterations))
  /\ [][(pc = "loop" /\ pc' # "loop") => (pc' = "collect" \/ ~(evaluate_counter < args.num_iterations))]_vars

\* a run that backed off at the admission cap has used its whole budget and returned
C16_Witness ==
  /\ pc = "returned"
  /\ backed_off
  /\ evaluate_counter = CapIterations
  /\ error = ""

\* the arrival of the k-th Observation of this run ties with the incumbent
\* value and the incumbent point stays an earlier row
TieKeepsIncumbent(k) ==
  /\ y[supplied_rows + k] = incumbents_values[k]
  /\ incumbents[k] # X[supplied_rows + k]

\* C17: at every arrival the incumbent is the row with the smallest index among
\* the rows of the Dataset that hold the minimum y at that arrival, in the
\* initial phase and in collect(); an arrival that ties never replaces it.
C17_FirstSeenMinimumWins ==
  \A k \in 1..Len(incumbents) :
    LET rows == supplied_rows + k
        first == CHOOSE j \in 1..rows :
                   /\ \A m \in 1..rows : y[j] <= y[m]
                   /\ \A m \in 1..(j - 1) : y[m] # y[j]
    IN  /\ rows <= Len(X)
        /\ incumbents[k] = X[first]
        /\ incumbents_values[k] = y[first]
        /\ (k > 1 /\ y[rows] = incumbents_values[k - 1]) => incumbents[k] = incumbents[k - 1]

\* ties arrived both in the initial phase and in collect(), and each time the
\* incumbent point stayed
C17_Witness ==
  /\ ~args.supplied
  /\ \E k \in 1..Len(init) : k <= Len(incumbents) /\ TieKeepsIncumbent(k)
  /\ \E k \in (Len(init) + 1)..Len(incumbents) : TieKeepsIncumbent(k)

\* C18: with an output path configured, every Observation arrival, in the
\* initial phase and in collect(), has saved one record whose iteration index is
\* a valid index of the five histories, and saving raises no error.
C18_EveryArrivalSaved ==
  output_path =>
    /\ error # "NameError"
    /\ Len(saved) = Len(incumbents)
    /\ \A k \in 1..Len(saved) :
         save_output_ok(saved[k], time_overhead, runtime, incumbents,
                        incumbents_values, time_func_evals)

\* Observations appended by collect()
main_loop_observations == Len(X) - supplied_rows - Len(init)

\* C19: each submitted trial contributes at most one Observation: when a
\* collect() call has ended no in-flight handle has its result in the Dataset,
\* and the Observations added in the main loop never exceed the adaptive
\* submissions.
C19_AtMostOneObservation ==
  /\ \A t \in 1..Len(trials) :
       Cardinality({k \in 1..Len(X) : X[k] = trials[t].x}) <= 1
  /\ pc \in {"loop", "drain", "return", "returned"} =>
       \A h \in in_flight : \A k \in 1..Len(X) : X[k] # trials[h].x
  /\ FromMainLoopOn => main_loop_observations <= adaptive_submissions

\* two trials of the main loop were harvested by different collect() calls, and
\* the run went on to return
C19_Witness ==
  /\ pc = "returned"
  /\ main_loop_observations >= 2
  /\ Len(trial_statistics) = 0

\* the main loop of this run is over: run() left the loop, or raised after it
MainLoopOver == LoopExited \/ (pc = "raised" /\ error = "IndexError")

\* C20: the counter of the main loop starts at init_points also when (X, y) was
\* supplied, so such a run performs exactly max(0, num_iterations - init_points)
\* adaptive submissions, whatever the number of supplied rows, and none when
\* num_iterations <= init_points.
C20_SuppliedRunSubmissions ==
  args.supplied =>
    /\ evaluate_counter = init_points + Len(trials)
    /\ MainLoopOver =>
         Len(trials) = (IF args.num_iterations > init_points
                          THEN args.num_iterations - init_points ELSE 0)
    /\ args.num_iterations <= init_points => Len(trials) = 0

\* a run on two supplied rows has left the main loop after a number of
\* submissions that differs from num_iterations minus the number of rows
C20_Witness ==
  /\ args.supplied
  /\ Len(args.X) = 2
  /\ MainLoopOver
  /\ Len(trials) = 2
  /\ Len(trials) # args.num_iterations - Len(args.X)
====
